---- MODULE Spec2Model ----
(***************************************************************************)
(* SGX Stock Insights (app.py): the runs of the dashboard script.          *)
(*   credential setup -> threshold slider -> fetch_stock_data ->           *)
(*   per-ticker change computation / classification / LLM insight.         *)
(* The script is run again on every interaction; fetch_stock_data is       *)
(* memoised across the runs by st.cache_data.  A run that is still going   *)
(* when a rerun or a stop is requested is ended by Streamlit at its next   *)
(* st.* call, which raises a script-control exception (a BaseException).   *)
(* A price DataFrame is modelled by the sequence of its 'Close' column,    *)
(* oldest row first.  Prices are integer-valued; drop_percentage and the   *)
(* slider value are IEEE-754 doubles.                                      *)
(***************************************************************************)
EXTENDS Integers, Sequences, FiniteSets, TLC

VARIABLES
    pc,                    \* position of the script
    secret,                \* outcome of the credential block (lines 17-25)
    significant_drop_pct,  \* slider value, line 176
    i,                     \* index of the ticker fetch_stock_data is at
    data,                  \* fetch_stock_data's local dict
    responses,             \* what yf.download did for each ticker tried so far
    all_stocks_data,       \* dict returned by fetch_stock_data, line 180
    j,                     \* index of the ticker the main loop is at
    pending,               \* flagged ticker waiting for its insight (line 206)
    highlighted_stocks,    \* line 182
    other_stocks,          \* line 183
    llm_log,               \* requests sent to the text-generation model
    trace,                 \* external calls and computations, in order
    cache,                 \* st.cache_data entry of fetch_stock_data, line 66
    calc_df,               \* input of the change computation taken alone
    calc_out               \* its result

vars == <<pc, secret, significant_drop_pct, i, data, responses, all_stocks_data,
          j, pending, highlighted_stocks, other_stocks, llm_log, trace,
          cache, calc_df, calc_out>>

----------------------------------------------------------------------------
(* Bounds *)

NumTickers == 3      \* how many registry entries a run iterates
MaxLen == 16         \* longest price series of the change computation

(* Program constants *)

Lookback == 14
MinPoints == 2
Percent == 100
Precision == 53
SliderMin == 0
SliderMax == 15
SliderDefault == 5

----------------------------------------------------------------------------
(* Registry *)

AllCompanies ==
    << [ticker |-> "D05.SI",  name |-> "DBS Group Holdings"],
       [ticker |-> "O39.SI",  name |-> "Oversea-Chinese Banking Corp"],
       [ticker |-> "U11.SI",  name |-> "United Overseas Bank"],
       [ticker |-> "C31.SI",  name |-> "CapitaLand Integrated Commercial Trust"],
       [ticker |-> "J36.SI",  name |-> "Jardine Matheson Holdings"],
       [ticker |-> "C6L.SI",  name |-> "Singapore Airlines"],
       [ticker |-> "Z74.SI",  name |-> "Singtel"],
       [ticker |-> "G13.SI",  name |-> "Genting Singapore"],
       [ticker |-> "S63.SI",  name |-> "Singapore Technologies Engineering"],
       [ticker |-> "BN4.SI",  name |-> "Keppel Corporation"],
       [ticker |-> "C09.SI",  name |-> "City Developments"],
       [ticker |-> "Y92.SI",  name |-> "Thai Beverage"],
       [ticker |-> "S58.SI",  name |-> "SATS"],
       [ticker |-> "U96.SI",  name |-> "Sembcorp Industries"],
       [ticker |-> "H78.SI",  name |-> "Hongkong Land Holdings"],
       [ticker |-> "V03.SI",  name |-> "Venture Corporation"],
       [ticker |-> "F34.SI",  name |-> "Wilmar International"],
       [ticker |-> "A17U.SI", name |-> "CapitaLand Ascendas REIT"],
       [ticker |-> "J69U.SI", name |-> "Frasers Centrepoint Trust"],
       [ticker |-> "M44U.SI", name |-> "Mapletree Logistics Trust"],
       [ticker |-> "N2IU.SI", name |-> "Mapletree Pan Asia Commercial Trust"],
       [ticker |-> "ME8U.SI", name |-> "Mapletree Industrial Trust"],
       [ticker |-> "BS6.SI",  name |-> "Yangzijiang Shipbuilding"],
       [ticker |-> "C38U.SI", name |-> "CapitaLand Ascott Trust"],
       [ticker |-> "5E2.SI",  name |-> "Seatrium Limited"],
       [ticker |-> "S68.SI",  name |-> "Singapore Exchange"],
       [ticker |-> "U14.SI",  name |-> "UOL Group"],
       [ticker |-> "Q01.SI",  name |-> "ComfortDelGro Corporation"],
       [ticker |-> "N52.SI",  name |-> "NetLink NBN Trust"],
       [ticker |-> "T39.SI",  name |-> "Thai Beverage Public Co Ltd"] >>

\* The first NumTickers entries of the registry, in insertion order.
STI_COMPANIES == SubSeq(AllCompanies, 1, NumTickers)

N == Len(STI_COMPANIES)

\* list(STI_COMPANIES.keys())
ticker_list == [k \in 1..N |-> STI_COMPANIES[k].ticker]

TickerSet == {ticker_list[k] : k \in 1..N}

\* Position of a ticker in the registry.
RegistryIndex(t) == CHOOSE k \in 1..N : ticker_list[k] = t

----------------------------------------------------------------------------
(* Arithmetic: Python floats are IEEE-754 doubles.  A double is modelled by *)
(* [neg, exp, mant]: mant is its 53-bit significand, most significant bit  *)
(* first (always 1), and its value is (-1)^neg * mant * 2^exp; zero has an *)
(* empty mant.  Every operation rounds to nearest, ties to even.           *)

Max(a, b) == IF a >= b THEN a ELSE b
Min(a, b) == IF a <= b THEN a ELSE b
Abs(a) == IF a < 0 THEN -a ELSE a

Zeros(k) == [x \in 1..k |-> 0]

Reverse(s) == [k \in 1..Len(s) |-> s[Len(s) + 1 - k]]

\* Binary digits of a natural number, most significant first (<<>> for 0).
RECURSIVE NatBits(_)
NatBits(n) == IF n = 0 THEN <<>> ELSE Append(NatBits(n \div 2), n % 2)

\* The natural number a (short) digit sequence stands for.
RECURSIVE BitsNat(_)
BitsNat(b) ==
    IF b = <<>> THEN 0 ELSE 2 * BitsNat(SubSeq(b, 1, Len(b) - 1)) + b[Len(b)]

\* b + 1 on digits, most significant first, same length (wraps on all ones).
RECURSIVE Increment(_)
Increment(b) ==
    IF b = <<>> THEN <<>>
    ELSE IF b[Len(b)] = 0
         THEN [b EXCEPT ![Len(b)] = 1]
         ELSE Append(Increment(SubSeq(b, 1, Len(b) - 1)), 0)

\* digits * k for a small k > 0; digits least significant first in and out.
RECURSIVE TimesLSB(_, _, _)
TimesLSB(b, k, carry) ==
    IF b = <<>>
    THEN Reverse(NatBits(carry))
    ELSE LET v == b[1] * k + carry
         IN  <<v % 2>> \o TimesLSB(Tail(b), k, v \div 2)

Times(b, k) == Reverse(TimesLSB(Reverse(b), k, 0))

FZero == [neg |-> FALSE, exp |-> 0, mant |-> <<>>]

IsZero(x) == x.mant = <<>>

\* Round the positive number bits * 2^exp (bits has a leading 1 and at least
\* Precision digits; sticky says that non-zero digits were cut off below).
RoundNearestEven(neg, bits, exp, sticky) ==
    LET L == Len(bits)
        keep == SubSeq(bits, 1, Precision)
        roundbit == IF L > Precision THEN bits[Precision + 1] ELSE 0
        st == sticky \/ \E k \in (Precision + 2)..L : bits[k] = 1
        up == roundbit = 1 /\ (st \/ keep[Precision] = 1)
        e == exp + (L - Precision)
    IN  IF ~up
        THEN [neg |-> neg, exp |-> e, mant |-> keep]
        ELSE IF \A k \in 1..Precision : keep[k] = 1
             THEN [neg |-> neg, exp |-> e + 1,
                   mant |-> <<1>> \o Zeros(Precision - 1)]
             ELSE [neg |-> neg, exp |-> e, mant |-> Increment(keep)]

\* float(n) for an int n: exact.
FromInt(n) ==
    IF n = 0 THEN FZero
    ELSE LET b == NatBits(Abs(n))
         IN  [neg |-> n < 0, exp |-> Len(b) - Precision,
              mant |-> b \o Zeros(Precision - Len(b))]

FNeg(x) == IF IsZero(x) THEN x ELSE [x EXCEPT !.neg = ~x.neg]
FAbs(x) == [x EXCEPT !.neg = FALSE]

\* Smallest k with a * 2^k >= q, and largest k with q * 2^k <= a.
RECURSIVE ShiftUp(_, _)
ShiftUp(a, q) == IF a >= q THEN 0 ELSE 1 + ShiftUp(2 * a, q)
RECURSIVE ShiftDown(_, _)
ShiftDown(a, q) == IF 2 * q > a THEN 0 ELSE 1 + ShiftDown(a, 2 * q)

RECURSIVE Pow2(_)
Pow2(k) == IF k = 0 THEN 1 ELSE 2 * Pow2(k - 1)

\* n further quotient digits of r / q (r < q), and the remainder after them.
RECURSIVE DivBits(_, _, _)
DivBits(r, q, n) ==
    IF n = 0 THEN <<>>
    ELSE LET b == IF 2 * r >= q THEN 1 ELSE 0
         IN  <<b>> \o DivBits(2 * r - b * q, q, n - 1)
RECURSIVE DivRem(_, _, _)
DivRem(r, q, n) ==
    IF n = 0 THEN r
    ELSE DivRem(IF 2 * r >= q THEN 2 * r - q ELSE 2 * r, q, n - 1)

\* float(p) / float(q) for ints p and q > 0.
FDivInt(p, q) ==
    IF p = 0 THEN FZero
    ELSE LET a == Abs(p)
             up == ShiftUp(a, q)
             down == ShiftDown(a, q)
             a1 == a * Pow2(up)
             q1 == q * Pow2(down)
             bits == <<1>> \o DivBits(a1 - q1, q1, Precision)
         IN  RoundNearestEven(p < 0, bits, (down - up) - Precision,
                              DivRem(a1 - q1, q1, Precision) # 0)

\* x * float(k) for an int k > 0.
FTimesInt(x, k) ==
    IF IsZero(x) THEN FZero
    ELSE RoundNearestEven(x.neg, Times(x.mant, k), x.exp, FALSE)

\* Digits compared as numbers of the same length, most significant first.
RECURSIVE BitsLess(_, _)
BitsLess(a, b) ==
    IF a = <<>> THEN FALSE
    ELSE IF a[1] # b[1] THEN a[1] < b[1]
    ELSE BitsLess(Tail(a), Tail(b))

MagnitudeLess(x, y) ==
    IF IsZero(y) THEN FALSE
    ELSE IF IsZero(x) THEN TRUE
    ELSE x.exp < y.exp \/ (x.exp = y.exp /\ BitsLess(x.mant, y.mant))

\* x < y on doubles.
FLess(x, y) ==
    LET xneg == x.neg /\ ~IsZero(x)
        yneg == y.neg /\ ~IsZero(y)
    IN  IF xneg /\ ~yneg THEN TRUE
        ELSE IF ~xneg /\ yneg THEN FALSE
        ELSE IF xneg THEN MagnitudeLess(y, x)
        ELSE MagnitudeLess(x, y)

\* format(x, '.2f') as a number of hundredths: the exact value of x rounded
\* to two decimals, ties to even.
Hundredths(x) ==
    IF IsZero(x) THEN 0
    ELSE LET prod == Times(x.mant, 100)
             s == -x.exp
             padded == Zeros(Max(0, s + 1 - Len(prod))) \o prod
             L == Len(padded)
             whole == BitsNat(SubSeq(padded, 1, L - s))
             half == padded[L - s + 1]
             rest == \E k \in (L - s + 2)..L : padded[k] = 1
             up == half = 1 /\ (rest \/ whole % 2 = 1)
             h == IF s <= 0 THEN BitsNat(prod) * Pow2(-s)
                  ELSE IF up THEN whole + 1 ELSE whole
         IN  IF x.neg THEN -h ELSE h

----------------------------------------------------------------------------
(* Inputs *)

\* Slider positions: the lower end, the default, and two more; the slider
\* ends at SliderMax.
Thresholds ==
    {FromInt(SliderMin), FDivInt(5, 2), FromInt(SliderDefault), FromInt(7)}

\* A series of the given length: `pre` before the trailing window, `first`
\* at the window's first row, `mid` inside it, `last` at the final row.
SeriesOf(len, pre, first, mid, last) ==
    [k \in 1..len |->
        IF k = len THEN last
        ELSE IF k = Max(1, len - Lookback + 1) THEN first
        ELSE IF k < len - Lookback + 1 THEN pre
        ELSE mid]

CalcPrices == {-10, 0, 90, 95, 100, 110}

\* Every close that occurs in CalcFrames and PipelineFrames.
Closes == CalcPrices \cup {50, 93, 98, 120}

CalcFrames ==
    {SeriesOf(len, p, f, m, l) :
        len \in 0..MaxLen, p \in CalcPrices, f \in CalcPrices,
        m \in CalcPrices, l \in CalcPrices}

\* What the price provider can hand back for one ticker in a run.
PipelineFrames ==
    { <<>>, <<100>>, <<100, 93>>, <<100, 95>>, <<100, 98>>, <<0, 50>>,
      SeriesOf(MaxLen, 50, 100, 120, 90) }

DownloadOutcomes ==
    {[kind |-> "raise", df |-> <<>>]} \cup
    {[kind |-> "df", df |-> s] : s \in PipelineFrames}

GenerateOutcomes ==
    { [kind |-> "text",  text |-> "commentary"],
      [kind |-> "raise", text |-> "quota exceeded"] }

SecretOutcomes == {"ok", "KeyError", "Exception"}

----------------------------------------------------------------------------
(* DataFrame operations used by the script *)

df_empty(df) == Len(df) = 0

\* Variant: the trailing window is forgotten and the whole frame is used.
tail_all(df, n) == df

\* df.tail(n): the last n rows, or all of them when there are fewer.
tail(df, n) == SubSeq(df, Max(1, Len(df) - n + 1), Len(df))

\* df['Close'].iloc[0] and .iloc[-1]
iloc_first(df) == df[1]
iloc_last(df) == df[Len(df)]

----------------------------------------------------------------------------
(* Credential block, lines 17-25: anything but success ends in st.stop() *)

\* Variant: only the missing key stops the script; a failed configure goes on.
AfterSetup_key_only(outcome) ==
    IF outcome = "KeyError" THEN "stopped" ELSE "slider"

AfterSetup(outcome) == IF outcome = "ok" THEN "slider" ELSE "stopped"

----------------------------------------------------------------------------
(* fetch_stock_data, lines 67-81 *)

\* One iteration's effect on the dict: only a non-empty frame is stored;
\* an exception is caught and leaves the dict alone.
FetchStore(d, ticker, resp) ==
    IF resp.kind = "df" /\ ~df_empty(resp.df)
    THEN (ticker :> resp.df) @@ d
    ELSE d

\* The for loop goes on to the next ticker whatever the download did.
NextFetchIndex(k, resp) == k + 1

\* Variant: the return sits inside the loop body.
FetchDone_early(k) == k > 1

\* The loop ends, and the dict is returned, once every ticker was tried.
FetchDone(k) == k > N

----------------------------------------------------------------------------
(* Change computation, lines 191-202 *)

\* Variant: a single row is taken to be enough.
TooShort_one(last_two_weeks_data) == Len(last_two_weeks_data) < 1

\* len(last_two_weeks_data) < 2
TooShort(last_two_weeks_data) == Len(last_two_weeks_data) < MinPoints

NoChange == [kind |-> "skip", current_price |-> 0, drop_percentage |-> FZero]

\* Lines 199-202.
PercentChange(current_price, price_two_weeks_ago) ==
    IF price_two_weeks_ago > 0
    THEN FTimesInt(FDivInt(current_price - price_two_weeks_ago,
                           price_two_weeks_ago),
                   Percent)
    ELSE FZero

\* The same, worked out once for the closes the inputs are made of.
PercentChangeOf ==
    [current_price \in Closes, price_two_weeks_ago \in Closes |->
        PercentChange(current_price, price_two_weeks_ago)]

ComputeChange(df) ==
    LET last_two_weeks_data == tail(df, Lookback)
    IN  IF TooShort(last_two_weeks_data)
        THEN NoChange
        ELSE LET current_price == iloc_last(last_two_weeks_data)
                 price_two_weeks_ago == iloc_first(last_two_weeks_data)
                 drop_percentage ==
                     IF current_price \in Closes /\ price_two_weeks_ago \in Closes
                     THEN PercentChangeOf[current_price, price_two_weeks_ago]
                     ELSE PercentChange(current_price, price_two_weeks_ago)
             IN  [kind |-> "ok", current_price |-> current_price,
                  drop_percentage |-> drop_percentage]

----------------------------------------------------------------------------
(* Classification, line 205 *)

\* Variant: the comparison is not strict.
IsSignificantDrop_inclusive(drop_percentage, threshold) ==
    ~FLess(FNeg(threshold), drop_percentage)

\* drop_percentage < -significant_drop_pct
IsSignificantDrop(drop_percentage, threshold) ==
    FLess(drop_percentage, FNeg(threshold))

----------------------------------------------------------------------------
(* get_llm_insight, lines 83-102 *)

Prompt(company_name, ticker, drop_percentage) ==
    [company_name |-> company_name, ticker |-> ticker,
     magnitude |-> Hundredths(FAbs(drop_percentage))]

\* Variant: no try/except around the provider call.
get_llm_insight_propagates(company_name, ticker, drop_percentage, resp) ==
    IF resp.kind = "text"
    THEN [raised |-> FALSE, value |-> resp.text]
    ELSE [raised |-> TRUE, value |-> ""]

\* The value the call hands back, or raised = TRUE when it lets the
\* provider's exception through.
get_llm_insight(company_name, ticker, drop_percentage, resp) ==
    IF resp.kind = "text"
    THEN [raised |-> FALSE, value |-> resp.text]
    ELSE [raised |-> FALSE,
          value |-> "Could not generate LLM insight: " \o resp.text]

----------------------------------------------------------------------------
(* Output records, lines 207-220 *)

HighlightedRecord(ticker, name, current_price, drop_percentage, insight) ==
    [ticker |-> ticker, name |-> name, current_price |-> current_price,
     drop_percentage |-> drop_percentage, insight |-> insight]

\* Variant: the unflagged record is built with an insight entry too.
OtherRecord_insight(ticker, name, current_price, drop_percentage) ==
    [ticker |-> ticker, name |-> name, current_price |-> current_price,
     drop_percentage |-> drop_percentage, insight |-> ""]

OtherRecord(ticker, name, current_price, drop_percentage) ==
    [ticker |-> ticker, name |-> name, current_price |-> current_price,
     drop_percentage |-> drop_percentage]

\* Variant: the record is inserted at the head of the list.
AppendHighlighted_front(list, rec) == <<rec>> \o list

\* highlighted_stocks.append(...), line 207
AppendHighlighted(list, rec) == Append(list, rec)

\* Variant: the append to other_stocks is not under the else.
RouteOther_all(list, rec, significant) == Append(list, rec)

\* other_stocks after the if/else of lines 205-220: only the else branch
\* appends to it.
RouteOther(list, rec, significant) ==
    IF significant THEN list ELSE Append(list, rec)

----------------------------------------------------------------------------
(* The run *)

\* The loop's local variables at line 206.
Locals(ticker, name, current_price, drop_percentage) ==
    [ticker |-> ticker, name |-> name, current_price |-> current_price,
     drop_percentage |-> drop_percentage]

NoPending == Locals("", "", 0, FZero)

Event(op, ticker) == [op |-> op, ticker |-> ticker]

NoCache == [valid |-> FALSE, value |-> <<>>]

Init ==
    /\ pc = "setup"
    /\ secret = "unread"
    /\ significant_drop_pct = FromInt(SliderDefault)
    /\ i = 1
    /\ data = <<>>
    /\ responses = <<>>
    /\ all_stocks_data = <<>>
    /\ j = 1
    /\ pending = NoPending
    /\ highlighted_stocks = <<>>
    /\ other_stocks = <<>>
    /\ llm_log = <<>>
    /\ trace = <<>>
    /\ cache = NoCache
    /\ calc_df = <<>>
    /\ calc_out = NoChange

\* Lines 17-25.  On the failing paths st.error (lines 21, 24) comes before
\* st.stop(): a pending rerun or stop request ends the run there.
Setup ==
    /\ pc = "setup"
    /\ \E outcome \in SecretOutcomes : \E ended \in BOOLEAN :
          /\ secret' = outcome
          /\ pc' = IF ended /\ outcome # "ok"
                   THEN "interrupted"
                   ELSE AfterSetup(outcome)
    /\ UNCHANGED <<significant_drop_pct, i, data, responses, all_stocks_data,
                   j, pending, highlighted_stocks, other_stocks, llm_log,
                   trace, cache, calc_df, calc_out>>

\* Line 176.
Slider ==
    /\ pc = "slider"
    /\ \E threshold \in Thresholds : significant_drop_pct' = threshold
    /\ pc' = "call"
    /\ UNCHANGED <<secret, i, data, responses, all_stocks_data, j, pending,
                   highlighted_stocks, other_stocks, llm_log, trace,
                   cache, calc_df, calc_out>>

\* The call at line 180 finds no entry younger than the ttl (line 66): the
\* body of fetch_stock_data runs, starting with data = {} (line 72).
CacheMiss ==
    /\ pc = "call"
    /\ cache' = NoCache
    /\ data' = <<>>
    /\ responses' = <<>>
    /\ i' = 1
    /\ pc' = "fetch"
    /\ UNCHANGED <<secret, significant_drop_pct, all_stocks_data, j, pending,
                   highlighted_stocks, other_stocks, llm_log, trace,
                   calc_df, calc_out>>

\* The call at line 180 is served from st.cache_data (line 66): the body is
\* not run and the memoised dict is returned; lines 182-183.
CacheHit ==
    /\ pc = "call"
    /\ cache.valid
    /\ all_stocks_data' = cache.value
    /\ highlighted_stocks' = <<>>
    /\ other_stocks' = <<>>
    /\ j' = 1
    /\ pc' = "loop"
    /\ UNCHANGED <<secret, significant_drop_pct, i, data, responses, pending,
                   llm_log, trace, cache, calc_df, calc_out>>

\* One iteration of the loop of fetch_stock_data, lines 73-80.
FetchOne ==
    /\ pc = "fetch"
    /\ ~FetchDone(i)
    /\ \E resp \in DownloadOutcomes :
          /\ data' = FetchStore(data, ticker_list[i], resp)
          /\ i' = NextFetchIndex(i, resp)
          /\ responses' = (ticker_list[i] :> resp) @@ responses
    /\ trace' = Append(trace, Event("download", ticker_list[i]))
    /\ UNCHANGED <<pc, secret, significant_drop_pct, all_stocks_data, j,
                   pending, highlighted_stocks, other_stocks, llm_log,
                   cache, calc_df, calc_out>>

\* Lines 73-79 with a rerun or stop request pending: the download raises,
\* the handler calls st.warning (line 79), and Streamlit's script-control
\* exception leaves fetch_stock_data and the script from there: the other
\* tickers are not tried, nothing is returned and nothing is memoised.
FetchInterrupted ==
    /\ pc = "fetch"
    /\ ~FetchDone(i)
    /\ \E resp \in DownloadOutcomes :
          /\ resp.kind = "raise"
          /\ responses' = (ticker_list[i] :> resp) @@ responses
    /\ trace' = Append(trace, Event("download", ticker_list[i]))
    /\ pc' = "interrupted"
    /\ UNCHANGED <<secret, significant_drop_pct, i, data, all_stocks_data, j,
                   pending, highlighted_stocks, other_stocks, llm_log,
                   cache, calc_df, calc_out>>

\* return data (line 81), memoised by st.cache_data (line 66); lines 180-183.
FetchReturn ==
    /\ pc = "fetch"
    /\ FetchDone(i)
    /\ cache' = [valid |-> TRUE, value |-> data]
    /\ all_stocks_data' = data
    /\ highlighted_stocks' = <<>>
    /\ other_stocks' = <<>>
    /\ j' = 1
    /\ pc' = "loop"
    /\ UNCHANGED <<secret, significant_drop_pct, i, data, responses, pending,
                   llm_log, trace, calc_df, calc_out>>

\* return data (line 81) with a rerun or stop request pending: the wrapper
\* of st.cache_data (line 66) clears its own spinner, an st.* call, once the
\* body has returned, and Streamlit's script-control exception ends the run
\* there, before line 180 assigns.  Whether the entry has been written by
\* then depends on the Streamlit release: both outcomes are possible.
FetchEnded ==
    /\ pc = "fetch"
    /\ FetchDone(i)
    /\ \E written \in BOOLEAN :
          cache' = IF written THEN [valid |-> TRUE, value |-> data] ELSE cache
    /\ pc' = "interrupted"
    /\ UNCHANGED <<secret, significant_drop_pct, i, data, responses,
                   all_stocks_data, j, pending, highlighted_stocks,
                   other_stocks, llm_log, trace, calc_df, calc_out>>

\* One iteration of the main loop up to the classification, lines 185-205,
\* and the unflagged branch, lines 214-220.
LoopStep ==
    /\ pc = "loop"
    /\ j <= N
    /\ LET ticker == STI_COMPANIES[j].ticker
           name == STI_COMPANIES[j].name
       IN  IF ticker \notin DOMAIN all_stocks_data
           THEN /\ j' = j + 1
                /\ UNCHANGED <<pc, pending, other_stocks, trace>>
           ELSE LET df == all_stocks_data[ticker]
                    change == ComputeChange(df)
                IN  IF df_empty(df) \/ change.kind = "skip"
                    THEN /\ j' = j + 1
                         /\ UNCHANGED <<pc, pending, other_stocks, trace>>
                    ELSE LET significant ==
                                 IsSignificantDrop(change.drop_percentage,
                                                   significant_drop_pct)
                         IN  /\ trace' = Append(trace, Event("change", ticker))
                             /\ other_stocks' = RouteOther(other_stocks,
                                    OtherRecord(ticker, name,
                                        change.current_price,
                                        change.drop_percentage),
                                    significant)
                             /\ IF significant
                                THEN /\ pending' = Locals(ticker, name,
                                            change.current_price,
                                            change.drop_percentage)
                                     /\ pc' = "insight"
                                     /\ UNCHANGED j
                                ELSE /\ j' = j + 1
                                     /\ UNCHANGED <<pc, pending>>
    /\ UNCHANGED <<secret, significant_drop_pct, i, data, responses,
                   all_stocks_data, highlighted_stocks, llm_log,
                   cache, calc_df, calc_out>>

\* The flagged branch, lines 206-213: the insight is requested, then the
\* record is appended.
Insight ==
    /\ pc = "insight"
    /\ \E resp \in GenerateOutcomes :
          LET r == get_llm_insight(pending.name, pending.ticker,
                                   pending.drop_percentage, resp)
          IN  /\ llm_log' = Append(llm_log,
                     [prompt |-> Prompt(pending.name, pending.ticker,
                                        pending.drop_percentage),
                      resp |-> resp])
              /\ IF r.raised
                 THEN /\ pc' = "crashed"
                      /\ UNCHANGED <<j, highlighted_stocks, pending>>
                 ELSE /\ highlighted_stocks' =
                            AppendHighlighted(highlighted_stocks,
                                HighlightedRecord(pending.ticker, pending.name,
                                    pending.current_price,
                                    pending.drop_percentage, r.value))
                      /\ j' = j + 1
                      /\ pending' = NoPending
                      /\ pc' = "loop"
    /\ trace' = Append(trace, Event("generate", pending.ticker))
    /\ UNCHANGED <<secret, significant_drop_pct, i, data, responses,
                   all_stocks_data, other_stocks, cache,
                   calc_df, calc_out>>

\* The loop is over; the lists go to the display code, lines 222-264.
LoopEnd ==
    /\ pc = "loop"
    /\ j > N
    /\ pc' = "done"
    /\ UNCHANGED <<secret, significant_drop_pct, i, data, responses,
                   all_stocks_data, j, pending, highlighted_stocks,
                   other_stocks, llm_log, trace, cache,
                   calc_df, calc_out>>

\* A rerun or stop request taken at an st.* call before the body of
\* fetch_stock_data or the main loop is entered: st.set_page_config
\* (line 9), the page header and the slider (lines 105-176), st.spinner
\* (line 178), and at the call of line 180 the spinner of st.cache_data
\* (line 66), which on a cache hit is shown and cleared with the entry left
\* as it is and line 180 not assigning.  The main loop (lines 185-220)
\* makes no st.* call; the calls after it (lines 220-264) find the run at
\* "done".
Interrupt ==
    /\ pc \in {"setup", "slider", "call"}
    /\ pc' = "interrupted"
    /\ UNCHANGED <<secret, significant_drop_pct, i, data, responses,
                   all_stocks_data, j, pending, highlighted_stocks,
                   other_stocks, llm_log, trace, cache, calc_df, calc_out>>

\* An interaction makes Streamlit run the script again from the top, after
\* a run that is over, was stopped, was ended by Streamlit or has raised:
\* every name of the script is gone, the st.cache_data entry stays (and with
\* it the record of the downloads it was made from).
Rerun ==
    /\ pc \in {"done", "stopped", "interrupted", "crashed"}
    /\ pc' = "setup"
    /\ secret' = "unread"
    /\ significant_drop_pct' = FromInt(SliderDefault)
    /\ i' = 1
    /\ data' = <<>>
    /\ all_stocks_data' = <<>>
    /\ j' = 1
    /\ pending' = NoPending
    /\ highlighted_stocks' = <<>>
    /\ other_stocks' = <<>>
    /\ llm_log' = <<>>
    /\ trace' = <<>>
    /\ responses' = IF cache.valid THEN responses ELSE <<>>
    /\ UNCHANGED <<cache, calc_df, calc_out>>

Next ==
    \/ Setup \/ Slider \/ CacheMiss \/ CacheHit \/ FetchOne \/ FetchInterrupted
    \/ FetchReturn \/ FetchEnded \/ LoopStep \/ Insight \/ LoopEnd
    \/ Interrupt \/ Rerun

Spec == Init /\ [][Next]_vars

----------------------------------------------------------------------------
(* The change computation taken alone *)

CalcInit ==
    /\ pc = "calc"
    /\ secret = "unread"
    /\ significant_drop_pct = FromInt(SliderDefault)
    /\ i = 1
    /\ data = <<>>
    /\ responses = <<>>
    /\ all_stocks_data = <<>>
    /\ j = 1
    /\ pending = NoPending
    /\ highlighted_stocks = <<>>
    /\ other_stocks = <<>>
    /\ llm_log = <<>>
    /\ trace = <<>>
    /\ cache = NoCache
    /\ calc_df \in CalcFrames
    /\ calc_out = NoChange

CalcApply ==
    /\ pc = "calc"
    /\ calc_out' = ComputeChange(calc_df)
    /\ pc' = "calc_done"
    /\ UNCHANGED <<secret, significant_drop_pct, i, data, responses,
                   all_stocks_data, j, pending, highlighted_stocks,
                   other_stocks, llm_log, trace, cache, calc_df>>

CalcNext == CalcApply

SpecCalc == CalcInit /\ [][CalcNext]_vars

----------------------------------------------------------------------------
(* Properties *)

TickersOf(list) == {list[k].ticker : k \in 1..Len(list)}

NoDuplicates(list) ==
    \A a \in 1..Len(list) : \A b \in 1..Len(list) :
        a # b => list[a].ticker # list[b].ticker

Flagged == TickersOf(highlighted_stocks)
Unflagged == TickersOf(other_stocks)
Dropped == TickerSet \ (Flagged \cup Unflagged)

\* Exact comparisons of a double with small numbers, digit by digit.

\* |x| > t / 2 for a double x and a natural number t.
MagnitudeAboveHalves(x, t) ==
    LET n == Precision + x.exp + 1     \* digits of the whole part of 2|x|
    IN  IF IsZero(x) THEN FALSE
        ELSE IF n <= 0 THEN t = 0
        ELSE IF n > 30 THEN TRUE
        ELSE LET whole == BitsNat(SubSeq(x.mant, 1, Min(n, Precision)))
                          * Pow2(Max(0, n - Precision))
                 frac == \E k \in (n + 1)..Precision : x.mant[k] = 1
             IN  whole > t \/ (whole = t /\ frac)

\* x < -(t / 2)
BelowMinusHalves(x, t) == x.neg /\ MagnitudeAboveHalves(x, t)

\* The slider value counted in halves.
Halves == [t \in 0..(2 * SliderMax) |-> FDivInt(t, 2)]

TwiceThreshold == CHOOSE t \in DOMAIN Halves : Halves[t] = significant_drop_pct

\* digits + k for a small k >= 0; digits least significant first.
RECURSIVE PlusLSB(_, _)
PlusLSB(b, k) ==
    IF k = 0 THEN b
    ELSE IF b = <<>> THEN Reverse(NatBits(k))
    ELSE <<(b[1] + k) % 2>> \o PlusLSB(Tail(b), (b[1] + k) \div 2)

\* a <= b on digit sequences without leading zeros, most significant first.
BitsLeq(a, b) ==
    Len(a) < Len(b) \/ (Len(a) = Len(b) /\ ~BitsLess(b, a))

\* The double x is within u units in its last place of the number p / q.
WithinUlps(x, p, q, u) ==
    IF p = 0 THEN IsZero(x)
    ELSE /\ ~IsZero(x)
         /\ x.neg = (p < 0)
         /\ x.exp < 0
         /\ LET a == TimesLSB(Reverse(x.mant), q, 0)
                b == Zeros(-x.exp) \o Reverse(NatBits(Abs(p)))
            IN  /\ BitsLeq(Reverse(a), Reverse(PlusLSB(b, u * q)))
                /\ BitsLeq(Reverse(b), Reverse(PlusLSB(a, u * q)))

\* C1: every instrument of the registry is in exactly one of flagged,
\* unflagged or dropped: the two lists hold registry instruments only, share
\* no instrument, and neither list holds an instrument twice.
C1_ExactlyOneGroup ==
    /\ Flagged \cap Unflagged = {}
    /\ (Flagged \cup Unflagged) \subseteq TickerSet
    /\ NoDuplicates(highlighted_stocks)
    /\ NoDuplicates(other_stocks)
    /\ ~FLess(significant_drop_pct, FromInt(SliderMin))
    /\ ~FLess(FromInt(SliderMax), significant_drop_pct)

C1_Witness ==
    /\ pc = "done"
    /\ Flagged # {}
    /\ Unflagged # {}
    /\ Dropped # {}

\* C2: the change computation is the reference point-to-point definition
\* over the trailing min(14, length) closes: nothing below 2 points, 0 for a
\* baseline <= 0, and otherwise (last - first) / first * 100 evaluated in
\* double arithmetic, which is the real quotient to within 2 units in the
\* last place; closes strictly inside the window or before it do not matter.
C2_ChangeIsReference ==
    pc = "calc_done" =>
        LET n == Len(calc_df)
            w == Min(Lookback, n)
        IN  IF w < 2
            THEN calc_out.kind = "skip"
            ELSE LET baseline == calc_df[n - w + 1]
                     last == calc_df[n]
                     c == calc_out.drop_percentage
                 IN  /\ calc_out.kind = "ok"
                     /\ calc_out.current_price = last
                     /\ IF baseline <= 0
                        THEN c = FZero
                        ELSE /\ c = FTimesInt(FDivInt(last - baseline, baseline), 100)
                             /\ WithinUlps(c, (last - baseline) * 100, baseline, 2)
                     /\ \A k \in (1..n) \ {n, n - w + 1} :
                            \A v \in CalcPrices :
                                ComputeChange([calc_df EXCEPT ![k] = v]) = calc_out

C2_Witness ==
    /\ pc = "calc_done"
    /\ Len(calc_df) > Lookback
    /\ calc_df[1] # calc_df[Len(calc_df) - Lookback + 1]
    /\ calc_df[Len(calc_df) - 1] < calc_df[Len(calc_df)]
    /\ calc_out.kind = "ok"
    /\ calc_out.drop_percentage.neg

\* C3: an instrument whose change was computed is in the flagged list iff
\* change_percent < -threshold and in the unflagged list otherwise, so a
\* change equal to -threshold is unflagged.
C3_StrictThreshold ==
    \A k \in 1..N :
        LET t == ticker_list[k]
        IN  (k < j /\ t \in DOMAIN all_stocks_data
                   /\ ComputeChange(all_stocks_data[t]).kind = "ok") =>
                LET c == ComputeChange(all_stocks_data[t]).drop_percentage
                    below == BelowMinusHalves(c, TwiceThreshold)
                IN  /\ (t \in Flagged) <=> below
                    /\ (t \in Unflagged) <=> ~below

C3_Witness ==
    /\ pc = "done"
    /\ ~IsZero(significant_drop_pct)
    /\ Flagged # {}
    /\ \E k \in 1..Len(other_stocks) :
          other_stocks[k].drop_percentage = FNeg(significant_drop_pct)

HasData(resp) == resp.kind = "df" /\ Len(resp.df) > 0

IsDownload(e) == e.op = "download"

AllDownloads == [k \in 1..N |-> Event("download", ticker_list[k])]

FetchReturned == pc \in {"loop", "insight", "done"}

\* The call of fetch_stock_data is under way, and so far it has stored
\* exactly the non-empty frames of the identifiers it has tried.
FetchStoresData ==
    pc = "fetch" =>
        /\ DOMAIN responses = {ticker_list[k] : k \in 1..Min(i - 1, N)}
        /\ DOMAIN data = {t \in DOMAIN responses : HasData(responses[t])}
        /\ \A t \in DOMAIN data : data[t] = responses[t].df
        /\ FetchDone(i) => SelectSeq(trace, IsDownload) = AllDownloads

\* The mapping a call has returned holds exactly the identifiers whose
\* download gave a non-empty frame, each with that frame.
ReturnedMappingExact ==
    FetchReturned =>
        /\ DOMAIN responses = TickerSet
        /\ SelectSeq(trace, IsDownload) \in {<<>>, AllDownloads}
        /\ DOMAIN all_stocks_data = {t \in TickerSet : HasData(responses[t])}
        /\ \A t \in DOMAIN all_stocks_data :
              all_stocks_data[t] = responses[t].df

\* C4: whatever the downloads did (data, empty frame, exception), a call
\* of fetch_stock_data that has begun tries every identifier: it is not left
\* before the last one (a run outside the call has made none of the
\* downloads or all of them), it stores exactly the non-empty frames on its
\* way, and the mapping it returns holds exactly the identifiers with a
\* non-empty frame.
C4_EveryIdentifierTried ==
    /\ FetchStoresData
    /\ ReturnedMappingExact
    /\ pc # "fetch" => SelectSeq(trace, IsDownload) \in {<<>>, AllDownloads}

\* The change of a ticker as the fetched data gives it is below -threshold.
SignificantByData(t) ==
    /\ t \in DOMAIN all_stocks_data
    /\ ComputeChange(all_stocks_data[t]).kind = "ok"
    /\ BelowMinusHalves(ComputeChange(all_stocks_data[t]).drop_percentage,
                        TwiceThreshold)

\* C5: a failing enrichment provider never ends the run: the instrument is
\* still in the flagged list, carrying the placeholder, and every other
\* flagged instrument has its own request and the text of that request.
C5_EnrichmentFailureIsolated ==
    /\ pc # "crashed"
    /\ pc # "insight" => Len(llm_log) = Len(highlighted_stocks)
    /\ \A k \in 1..Len(highlighted_stocks) :
          /\ llm_log[k].prompt.ticker = highlighted_stocks[k].ticker
          /\ highlighted_stocks[k].insight =
                IF llm_log[k].resp.kind = "raise"
                THEN "Could not generate LLM insight: " \o llm_log[k].resp.text
                ELSE llm_log[k].resp.text
    /\ pc = "done" => \A t \in TickerSet : SignificantByData(t) => t \in Flagged

C5_Witness ==
    /\ pc = "done"
    /\ Len(highlighted_stocks) >= 2
    /\ llm_log[1].resp.kind = "raise"
    /\ highlighted_stocks[1].insight = "Could not generate LLM insight: quota exceeded"
    /\ llm_log[2].resp.kind = "text"
    /\ highlighted_stocks[2].insight = "commentary"

\* C6: after a failed credential block the run is over (stopped by
\* st.stop(), or ended by Streamlit at the st.error before it) and no price
\* fetch, change computation or enrichment request has been or will be made.
C6_HaltBeforePipeline ==
    secret \in {"KeyError", "Exception"} =>
        /\ pc \in {"stopped", "interrupted"}
        /\ trace = <<>>
        /\ llm_log = <<>>
        /\ highlighted_stocks = <<>>
        /\ other_stocks = <<>>

C6_Witness ==
    /\ pc = "stopped"
    /\ secret = "KeyError"

InRegistryOrder(list) ==
    \A a \in 1..Len(list) : \A b \in 1..Len(list) :
        (a < b) <=> (RegistryIndex(list[a].ticker) < RegistryIndex(list[b].ticker))

\* C7: within each output list the records are in registry order, whatever
\* their changes and whichever instruments are missing from the list.
C7_RegistryOrder ==
    /\ InRegistryOrder(highlighted_stocks)
    /\ InRegistryOrder(other_stocks)

C7_Witness ==
    /\ pc = "done"
    /\ Len(highlighted_stocks) >= 2
    /\ FLess(highlighted_stocks[2].drop_percentage,
               highlighted_stocks[1].drop_percentage)
    /\ RegistryIndex(highlighted_stocks[2].ticker) >
          RegistryIndex(highlighted_stocks[1].ticker) + 1

\* C8 as stated: three phases, no fetch after a computation and no
\* computation after an enrichment request.
C8_ThreePhases ==
    \A a \in 1..Len(trace) : \A b \in 1..Len(trace) :
        a < b =>
            /\ ~(trace[a].op \in {"change", "generate"} /\ trace[b].op = "download")
            /\ ~(trace[a].op = "generate" /\ trace[b].op = "change")

\* C8 amended: the price series are all there, fetched in this run or
\* taken from the cache, before anything is computed; then the instruments
\* are computed and classified in registry order, and the enrichment request
\* of a flagged instrument comes right after that instrument's own
\* computation, before the next instrument is computed.
C8_FetchThenInterleave ==
    /\ (\E a \in 1..Len(trace) : trace[a].op # "download") =>
          /\ FetchReturned
          /\ \/ \A a \in 1..Len(trace) : trace[a].op # "download"
             \/ /\ Len(trace) >= N
                /\ SubSeq(trace, 1, N) = AllDownloads
                /\ \A a \in (N + 1)..Len(trace) : trace[a].op # "download"
    /\ \A a \in 1..Len(trace) :
          trace[a].op = "generate" =>
              /\ a > 1
              /\ trace[a - 1] = Event("change", trace[a].ticker)
    /\ \A a \in 1..Len(trace) : \A b \in 1..Len(trace) :
          (a < b /\ trace[a].op = "change" /\ trace[b].op = "change") =>
              RegistryIndex(trace[a].ticker) < RegistryIndex(trace[b].ticker)

C8_Witness ==
    /\ pc = "done"
    /\ SelectSeq(trace, IsDownload) = AllDownloads
    /\ \E a \in 1..Len(trace) : \E b \in 1..Len(trace) :
          /\ a < b
          /\ trace[a].op = "generate"
          /\ trace[b].op = "change"

\* C9: at the end of a run an instrument is in neither list iff its download
\* failed, gave an empty frame, or gave fewer than 2 rows in the trailing
\* window.
C9_DroppedIffNoData ==
    pc = "done" =>
        \A t \in TickerSet :
            (t \in Dropped) <=>
                \/ responses[t].kind = "raise"
                \/ Len(responses[t].df) = 0
                \/ Min(Lookback, Len(responses[t].df)) < 2

C9_Witness ==
    /\ pc = "done"
    /\ \E t \in Dropped : responses[t].kind = "df" /\ Len(responses[t].df) = 1
    /\ \E t \in TickerSet \ Dropped : Len(responses[t].df) = 2
    /\ \E t \in TickerSet \ Dropped : Len(responses[t].df) > Lookback

RequestsFor(t) ==
    Cardinality({k \in 1..Len(llm_log) : llm_log[k].prompt.ticker = t})

GenerateEventsFor(t) ==
    Cardinality({k \in 1..Len(trace) : trace[k] = Event("generate", t)})

\* C10: exactly one enrichment request is made for each instrument of the
\* flagged list and none for any other; flagged records carry an insight,
\* unflagged records have no such entry.
C10_InsightOnlyForFlagged ==
    /\ \A t \in TickerSet :
          /\ RequestsFor(t) = (IF t \in Flagged THEN 1 ELSE 0)
          /\ GenerateEventsFor(t) = RequestsFor(t)
    /\ \A k \in 1..Len(highlighted_stocks) :
          "insight" \in DOMAIN highlighted_stocks[k]
    /\ \A k \in 1..Len(other_stocks) :
          "insight" \notin DOMAIN other_stocks[k]

C10_Witness ==
    /\ pc = "done"
    /\ significant_drop_pct = FromInt(SliderDefault)
    /\ \E k \in 1..Len(highlighted_stocks) :
          highlighted_stocks[k].drop_percentage = FromInt(-10)
    /\ \E k \in 1..Len(other_stocks) :
          /\ other_stocks[k].drop_percentage = FromInt(-2)
          /\ RequestsFor(other_stocks[k].ticker) = 0
    /\ Dropped # {}

====
